---- MODULE Spec2Model ----
(***************************************************************************)
(* KooRemapper presentation generator (create_presentation.py).            *)
(*                                                                         *)
(* The model covers PresentationGenerator.parse_readme and the level       *)
(* detection of PresentationGenerator.add_content_slide.  A text line is a *)
(* sequence of characters, each character a one-element string; Hangul     *)
(* syllables are written by their romanisation ("ju" is U+C8FC), so that   *)
(* str.strip, str.startswith, the "in" operator and slicing are computed   *)
(* character by character as Python computes them.  The slide deck         *)
(* (self.prs.slides) is the sequence of the slides appended so far; of a   *)
(* slide the model keeps what parse_readme decides: its kind, its title    *)
(* and its body (paragraphs with level and text, or raw lines).  Shapes,   *)
(* fonts and colours are left to python-pptx.                              *)
(***************************************************************************)
EXTENDS Integers, Sequences, FiniteSets, TLC

VARIABLES
    fileExists,     \* whether open(readme_path) succeeds
    lines,          \* content.split('\n') of the file at readme_path
    pc,             \* position of parse_readme
    idx,            \* index (1-based) of the line the running for-loop is at
    features,       \* local list features
    in_features,    \* local flag in_features
    workflow,       \* local list workflow
    in_workflow,    \* local flag in_workflow
    in_code_block,  \* local flag in_code_block
    slides,         \* self.prs.slides, in the order of the add_slide calls
    feat_src,       \* history: for each element of features, the index of its line
    flow_src,       \* history: for each element of workflow, the index of its line
    item,           \* add_content_slide: the content item under the loop
    para            \* add_content_slide: the paragraph written for item

vars == <<fileExists, lines, pc, idx, features, in_features, workflow,
          in_workflow, in_code_block, slides, feat_src, flow_src, item, para>>

(***************************************************************************)
(* Bounds of the model.                                                    *)
(***************************************************************************)
MaxLines == 4
MaxItemLen == 7

(***************************************************************************)
(* Python string primitives.                                               *)
(***************************************************************************)
\* str.isspace characters that can occur inside a line
Whitespace == {" ", "\t", "\r"}

StartsWith(s, p) ==
    /\ Len(s) >= Len(p)
    /\ SubSeq(s, 1, Len(p)) = p

\* sub in s
Contains(s, sub) ==
    \E k \in 0..(Len(s) - Len(sub)) : SubSeq(s, k + 1, k + Len(sub)) = sub

\* s[n:]
DropFirst(s, n) == SubSeq(s, n + 1, Len(s))

RECURSIVE LStripChars(_, _)
\* s.lstrip(chars)
LStripChars(s, chars) ==
    IF s # <<>> /\ Head(s) \in chars
    THEN LStripChars(Tail(s), chars)
    ELSE s

RECURSIVE RStripChars(_, _)
\* s.rstrip(chars)
RStripChars(s, chars) ==
    IF s # <<>> /\ s[Len(s)] \in chars
    THEN RStripChars(SubSeq(s, 1, Len(s) - 1), chars)
    ELSE s

\* s.strip()
Strip(s) == RStripChars(LStripChars(s, Whitespace), Whitespace)

(***************************************************************************)
(* String literals of the program.                                         *)
(***************************************************************************)
FeaturesHeading == <<"#", "#", " ", "ju", "yo", " ", "gi", "neung">>
WorkflowHeading == <<"#", "#", " ", "jeon", "che", " ", "wo", "keu", "peul", "lo", "u">>
HeadingPrefix == <<"#", "#">>
BulletMarker == <<"-", " ">>
\* three backticks; "bt" is U+0060, which a TLA+ string cannot hold
Fence == <<"bt", "bt", "bt">>
Level1Prefix == <<" ", " ", "-", " ">>
Level2Prefix == <<" ", " ", " ", " ", "-", " ">>

(***************************************************************************)
(* add_content_slide: level detection of one content item.                 *)
(***************************************************************************)
\* Classify without the final else branch: an unmarked item keeps the lstrip
\* result of the first assignment
Classify_keep_lstrip(it) ==
    LET init == [level |-> 0, text |-> LStripChars(it, {"-", " "})]
    IN  IF StartsWith(it, Level1Prefix)
        THEN [init EXCEPT !.level = 1, !.text = DropFirst(it, 4)]
        ELSE IF StartsWith(it, Level2Prefix)
        THEN [init EXCEPT !.level = 2, !.text = DropFirst(it, 6)]
        ELSE IF StartsWith(it, BulletMarker)
        THEN [init EXCEPT !.level = 0, !.text = DropFirst(it, 2)]
        ELSE init

\* The loop body for one item: the assignments before the if-chain, then the
\* first branch of the chain whose test holds, in the order the code tests.
Classify(it) ==
    LET init == [level |-> 0, text |-> LStripChars(it, {"-", " "})]
    IN  IF StartsWith(it, Level1Prefix)
        THEN [init EXCEPT !.level = 1, !.text = DropFirst(it, 4)]
        ELSE IF StartsWith(it, Level2Prefix)
        THEN [init EXCEPT !.level = 2, !.text = DropFirst(it, 6)]
        ELSE IF StartsWith(it, BulletMarker)
        THEN [init EXCEPT !.level = 0, !.text = DropFirst(it, 2)]
        ELSE [init EXCEPT !.text = it]

(***************************************************************************)
(* The slide deck.                                                         *)
(***************************************************************************)
add_title_slide(s, title, subtitle) ==
    Append(s, [kind |-> "title", title |-> title, body |-> <<subtitle>>])

add_content_slide(s, title, content_items) ==
    Append(s, [kind |-> "content", title |-> title,
               body |-> [k \in 1..Len(content_items) |-> Classify(content_items[k])]])

add_code_slide(s, title, code_lines) ==
    Append(s, [kind |-> "code", title |-> title, body |-> code_lines])

\* add_diagram_slide inserting the slide at the front of the deck
add_diagram_slide_first(s, title, diagram_lines) ==
    <<[kind |-> "diagram", title |-> title, body |-> diagram_lines]>> \o s

add_diagram_slide(s, title, diagram_lines) ==
    Append(s, [kind |-> "diagram", title |-> title, body |-> diagram_lines])

\* Titles the program passes (Hangul romanised)
FeaturesTitle == "juyo gineung"
WorkflowTitle == "jeonche wokeupeullou"
KooTitle == "KooRemapper"
ThanksTitle == "gamsahamnida"

(***************************************************************************)
(* The documents parse_readme is run on: every sequence of 1..MaxLines     *)
(* lines of LinePool.  str.split always returns at least one line.         *)
(***************************************************************************)
LinePool ==
    { FeaturesHeading,
      <<" ">> \o FeaturesHeading \o <<" ">>,
      WorkflowHeading,
      <<"a", " ">> \o WorkflowHeading,
      Fence,
      <<"-", " ", "a">>,
      <<" ", " ", "-", " ", "b">>,
      <<>>,
      <<"#", " ", "a">>,
      <<"#", "#", " ", "a">> }

Documents == UNION { [1..n -> LinePool] : n \in 1..MaxLines }

(***************************************************************************)
(* The literal item lists of create_command_slides, create_example_slides  *)
(* and create_technical_slides.  Of each literal the model keeps the       *)
(* leading characters the level detection reads and writes "t" for the     *)
(* prose that follows.                                                     *)
(***************************************************************************)
TextLine == <<"t">>
BlankLine == <<>>
Dash2Line == <<" ", " ", "-", " ", "t">>
Text4Line == <<" ", " ", " ", " ", "t">>

\* lines 283-293
generate_var_items ==
    << TextLine, BlankLine, TextLine, Dash2Line, Dash2Line, Dash2Line,
       BlankLine, TextLine, Dash2Line, Dash2Line, Dash2Line >>

\* lines 299-308
yaml_example ==
    << TextLine, TextLine, TextLine, Dash2Line, Dash2Line, Dash2Line,
       TextLine, BlankLine, TextLine, TextLine >>

\* lines 316-328
map_items ==
    << TextLine, BlankLine, TextLine, Dash2Line, Dash2Line, BlankLine,
       TextLine, Dash2Line, BlankLine, TextLine, Dash2Line, Dash2Line,
       Dash2Line >>

\* lines 334-341
map_example ==
    << TextLine, TextLine, BlankLine, TextLine, TextLine, BlankLine,
       TextLine, TextLine >>

\* lines 349-360
prestress_items ==
    << TextLine, BlankLine, TextLine, Dash2Line, Dash2Line, Dash2Line,
       BlankLine, TextLine, Dash2Line, Dash2Line, BlankLine, TextLine >>

\* lines 366-375
prestress_example ==
    << TextLine, TextLine, BlankLine, TextLine, TextLine, Text4Line,
       BlankLine, TextLine, TextLine, TextLine >>

\* lines 383-394
other_items ==
    << TextLine, Dash2Line, Dash2Line, BlankLine, TextLine, Dash2Line,
       Dash2Line, BlankLine, TextLine, Dash2Line, Dash2Line, Dash2Line >>

\* lines 403-416
full_example ==
    << TextLine, TextLine, BlankLine, TextLine, TextLine, BlankLine,
       TextLine, TextLine, BlankLine, TextLine, TextLine, BlankLine,
       TextLine, TextLine >>

\* lines 426-440
technical_items ==
    << TextLine, Dash2Line, Dash2Line, BlankLine, TextLine, Dash2Line,
       Dash2Line, Dash2Line, Dash2Line, BlankLine, TextLine, Dash2Line,
       Dash2Line, Dash2Line, Dash2Line >>

\* lines 447-458
format_items ==
    << TextLine, Dash2Line, Dash2Line, Dash2Line, Dash2Line, BlankLine,
       TextLine, Dash2Line, Dash2Line, Dash2Line, Dash2Line, Dash2Line >>

create_command_slides(s) ==
    LET s1 == add_content_slide(s, "1. generate-var", generate_var_items)
        s2 == add_code_slide(s1, "generate-var example", yaml_example)
        s3 == add_content_slide(s2, "2. map", map_items)
        s4 == add_code_slide(s3, "map example", map_example)
        s5 == add_content_slide(s4, "3. prestress", prestress_items)
        s6 == add_code_slide(s5, "prestress example", prestress_example)
    IN  add_content_slide(s6, "4. other commands", other_items)

create_example_slides(s) ==
    add_code_slide(s, "full workflow example", full_example)

create_technical_slides(s) ==
    LET s1 == add_content_slide(s, "technical details", technical_items)
    IN  add_content_slide(s1, "file formats and features", format_items)

(***************************************************************************)
(* parse_readme.                                                           *)
(***************************************************************************)
NoPara == [level |-> -1, text |-> <<>>]

Init ==
    /\ \/ fileExists = TRUE /\ lines \in Documents
       \/ fileExists = FALSE /\ lines = <<>>
    /\ pc = "start"
    /\ idx = 1
    /\ features = <<>>
    /\ in_features = FALSE
    /\ workflow = <<>>
    /\ in_workflow = FALSE
    /\ in_code_block = FALSE
    /\ slides = <<>>
    /\ feat_src = <<>>
    /\ flow_src = <<>>
    /\ item = <<>>
    /\ para = NoPara

\* OpenFails with the opening title slide added before the file is opened
OpenFails_after_title ==
    /\ pc = "start"
    /\ ~fileExists
    /\ slides' = add_title_slide(slides, KooTitle, "subtitle")
    /\ pc' = "error"
    /\ UNCHANGED <<fileExists, lines, idx, features, in_features, workflow,
                   in_workflow, in_code_block, feat_src, flow_src, item, para>>

\* open() raises: the exception leaves parse_readme before any slide is added
OpenFails ==
    /\ pc = "start"
    /\ ~fileExists
    /\ pc' = "error"
    /\ UNCHANGED <<fileExists, lines, idx, features, in_features, workflow,
                   in_workflow, in_code_block, slides, feat_src, flow_src,
                   item, para>>

\* the file is read and split, then the opening title slide is added
OpenAndTitle ==
    /\ pc = "start"
    /\ fileExists
    /\ slides' = add_title_slide(slides, KooTitle, "subtitle")
    /\ pc' = "features"
    /\ UNCHANGED <<fileExists, lines, idx, features, in_features, workflow,
                   in_workflow, in_code_block, feat_src, flow_src, item, para>>

\* The branch of the features loop body taken for one line
FeaturesBranch(line, inF) ==
    IF Strip(line) = FeaturesHeading THEN "enter"
    ELSE IF inF /\ StartsWith(line, HeadingPrefix) THEN "break"
    ELSE IF inF /\ StartsWith(Strip(line), BulletMarker) THEN "append"
    ELSE "next"

\* FeatureItem without the strip
FeatureItem_untrimmed(line) == line

\* what features.append receives for a bullet line
FeatureItem(line) == Strip(line)

\* one iteration of `for line in lines` of the features loop; the loop is left
\* by break (idx stays on the breaking line) or after the last line
FeaturesStep ==
    /\ pc = "features"
    /\ idx <= Len(lines)
    /\ LET line == lines[idx]
           b == FeaturesBranch(line, in_features)
       IN  /\ in_features' = (in_features \/ b = "enter")
           /\ features' = IF b = "append"
                          THEN Append(features, FeatureItem(line))
                          ELSE features
           /\ feat_src' = IF b = "append" THEN Append(feat_src, idx) ELSE feat_src
           /\ idx' = IF b = "break" THEN idx ELSE idx + 1
           /\ pc' = IF b = "break" \/ idx = Len(lines)
                    THEN "features_slide"
                    ELSE "features"
    /\ UNCHANGED <<fileExists, lines, workflow, in_workflow, in_code_block,
                   slides, flow_src, item, para>>

\* FeaturesSlide without the test of features
FeaturesSlide_unconditional ==
    /\ pc = "features_slide"
    /\ slides' = add_content_slide(slides, FeaturesTitle, features)
    /\ pc' = "workflow"
    /\ idx' = 1
    /\ UNCHANGED <<fileExists, lines, features, in_features, workflow,
                   in_workflow, in_code_block, feat_src, flow_src, item, para>>

\* if features: self.add_content_slide(...)
FeaturesSlide ==
    /\ pc = "features_slide"
    /\ slides' = IF features # <<>>
                 THEN add_content_slide(slides, FeaturesTitle, features)
                 ELSE slides
    /\ pc' = "workflow"
    /\ idx' = 1
    /\ UNCHANGED <<fileExists, lines, features, in_features, workflow,
                   in_workflow, in_code_block, feat_src, flow_src, item, para>>

\* The branch of the workflow loop body taken for one line
WorkflowBranch(line, inW, inC) ==
    IF Contains(line, WorkflowHeading) THEN "enter"
    ELSE IF inW /\ Strip(line) = Fence
         THEN (IF ~inC THEN "open" ELSE "break")
    ELSE IF inW /\ inC THEN "append"
    ELSE "next"

\* one iteration of the workflow loop
WorkflowStep ==
    /\ pc = "workflow"
    /\ idx <= Len(lines)
    /\ LET line == lines[idx]
           b == WorkflowBranch(line, in_workflow, in_code_block)
       IN  /\ in_workflow' = (in_workflow \/ b = "enter")
           /\ in_code_block' = (in_code_block \/ b = "open")
           /\ workflow' = IF b = "append" THEN Append(workflow, line) ELSE workflow
           /\ flow_src' = IF b = "append" THEN Append(flow_src, idx) ELSE flow_src
           /\ idx' = IF b = "break" THEN idx ELSE idx + 1
           /\ pc' = IF b = "break" \/ idx = Len(lines)
                    THEN "workflow_slide"
                    ELSE "workflow"
    /\ UNCHANGED <<fileExists, lines, features, in_features, slides, feat_src,
                   item, para>>

\* if workflow: self.add_diagram_slide(...)
WorkflowSlide ==
    /\ pc = "workflow_slide"
    /\ slides' = IF workflow # <<>>
                 THEN add_diagram_slide(slides, WorkflowTitle, workflow)
                 ELSE slides
    /\ pc' = "commands"
    /\ UNCHANGED <<fileExists, lines, idx, features, in_features, workflow,
                   in_workflow, in_code_block, feat_src, flow_src, item, para>>

CommandSlides ==
    /\ pc = "commands"
    /\ slides' = create_command_slides(slides)
    /\ pc' = "examples"
    /\ UNCHANGED <<fileExists, lines, idx, features, in_features, workflow,
                   in_workflow, in_code_block, feat_src, flow_src, item, para>>

ExampleSlides ==
    /\ pc = "examples"
    /\ slides' = create_example_slides(slides)
    /\ pc' = "technical"
    /\ UNCHANGED <<fileExists, lines, idx, features, in_features, workflow,
                   in_workflow, in_code_block, feat_src, flow_src, item, para>>

TechnicalSlides ==
    /\ pc = "technical"
    /\ slides' = create_technical_slides(slides)
    /\ pc' = "closing"
    /\ UNCHANGED <<fileExists, lines, idx, features, in_features, workflow,
                   in_workflow, in_code_block, feat_src, flow_src, item, para>>

ClosingSlide ==
    /\ pc = "closing"
    /\ slides' = add_title_slide(slides, ThanksTitle, "closing subtitle")
    /\ pc' = "done"
    /\ UNCHANGED <<fileExists, lines, idx, features, in_features, workflow,
                   in_workflow, in_code_block, feat_src, flow_src, item, para>>

Next ==
    \/ OpenFails
    \/ OpenAndTitle
    \/ FeaturesStep
    \/ FeaturesSlide
    \/ WorkflowStep
    \/ WorkflowSlide
    \/ CommandSlides
    \/ ExampleSlides
    \/ TechnicalSlides
    \/ ClosingSlide

Spec == Init /\ [][Next]_vars

(***************************************************************************)
(* add_content_slide applied to one content item: the item ranges over     *)
(* every string of at most MaxItemLen characters of ItemChars.             *)
(***************************************************************************)
ItemChars == {" ", "-", "a"}

Items == UNION { [1..n -> ItemChars] : n \in 0..MaxItemLen }

InitClassify ==
    /\ item \in Items
    /\ para = NoPara
    /\ fileExists = FALSE
    /\ lines = <<>>
    /\ pc = "content_item"
    /\ idx = 1
    /\ features = <<>>
    /\ in_features = FALSE
    /\ workflow = <<>>
    /\ in_workflow = FALSE
    /\ in_code_block = FALSE
    /\ slides = <<>>
    /\ feat_src = <<>>
    /\ flow_src = <<>>

\* p.text = cleaned_item; p.level = level
ClassifyItem ==
    /\ pc = "content_item"
    /\ para' = Classify(item)
    /\ pc' = "content_done"
    /\ UNCHANGED <<fileExists, lines, idx, features, in_features, workflow,
                   in_workflow, in_code_block, slides, feat_src, flow_src, item>>

NextClassify == ClassifyItem

SpecClassify == InitClassify /\ [][NextClassify]_vars

(***************************************************************************)
(* Vocabulary of the properties.                                           *)
(***************************************************************************)
Min(S) == CHOOSE x \in S : \A y \in S : x <= y

LineIdxs == 1..Len(lines)

\* the features loop has been left
FeaturesDone ==
    pc \in {"features_slide", "workflow", "workflow_slide", "commands",
            "examples", "technical", "closing", "done"}

\* the workflow loop has been left
WorkflowDone ==
    pc \in {"workflow_slide", "commands", "examples", "technical", "closing", "done"}

\* lines equal, after trim, to the features heading
FeatureHeadingIdxs == { j \in LineIdxs : Strip(lines[j]) = FeaturesHeading }

\* lines containing the workflow heading
WorkflowHeadingIdxs == { j \in LineIdxs : Contains(lines[j], WorkflowHeading) }

\* fence lines after line j
FencesAfter(j) == { k \in LineIdxs : k > j /\ Strip(lines[k]) = Fence }

IsBullet(line) == StartsWith(Strip(line), BulletMarker)

RECURSIVE TrimmedBullets(_, _)
\* the trimmed bullet lines among lines[a..b], in document order
TrimmedBullets(a, b) ==
    IF a > b THEN <<>>
    ELSE (IF IsBullet(lines[a]) THEN <<Strip(lines[a])>> ELSE <<>>)
         \o TrimmedBullets(a + 1, b)

\* position in the deck of the slide of the given kind and title, 0 if none
SlidePos(kind, title) ==
    LET P == { k \in 1..Len(slides) : slides[k].kind = kind /\ slides[k].title = title }
    IN  IF P = {} THEN 0 ELSE Min(P)

FeaturesSlidePos == SlidePos("content", FeaturesTitle)
WorkflowSlidePos == SlidePos("diagram", WorkflowTitle)

\* C1: only the first occurrence of the features heading is honoured: when a
\* line equal (after trim) to the heading occurs again after the first
\* occurrence, no bullet line located after that later occurrence is in the
\* extracted features list.
C1_FirstOccurrenceOnly ==
    \A h2 \in FeatureHeadingIdxs :
        h2 > Min(FeatureHeadingIdxs) =>
            \A k \in 1..Len(feat_src) : feat_src[k] < h2

\* C5: the extracted features are exactly the (trimmed) bullet lines after the
\* first line equal to the heading and before the first subsequent line that
\* starts with '##', in document order; nothing when the heading is absent.
C5_ExactBullets ==
    FeaturesDone =>
        IF FeatureHeadingIdxs = {} THEN features = <<>>
        ELSE LET h == Min(FeatureHeadingIdxs)
                 E == { j \in LineIdxs : j > h /\ StartsWith(lines[j], HeadingPrefix) }
                 e == IF E = {} THEN Len(lines) + 1 ELSE Min(E)
             IN  features = TrimmedBullets(h + 1, e - 1)

\* a heading line of rank one ('# ...') or rank two ('## ...')
IsRankOneOrTwo(line) ==
    \/ StartsWith(line, <<"#", " ">>)
    \/ StartsWith(line, <<"#", "#", " ">>)

\* C9: once collecting has started, the first following heading line of rank
\* one or rank two ends collection: no bullet line after it is in the result;
\* and the loop is never left on a blank line.
C9_EndsAtEqualOrHigherRank ==
    /\ FeatureHeadingIdxs # {} =>
          LET h == Min(FeatureHeadingIdxs)
              E == { j \in LineIdxs : j > h /\ IsRankOneOrTwo(lines[j]) }
          IN  E # {} => \A k \in 1..Len(feat_src) : feat_src[k] < Min(E)
    /\ (pc = "features_slide" /\ idx <= Len(lines)) => Strip(lines[idx]) # <<>>

\* C2: with the workflow heading followed by an opening and a closing fence
\* line, the extracted workflow is exactly the lines strictly between the
\* first fence line after the heading and the next fence line, verbatim.
C2_ExactFencedBlock ==
    (WorkflowDone /\ WorkflowHeadingIdxs # {}) =>
        LET O == FencesAfter(Min(WorkflowHeadingIdxs))
        IN  O # {} =>
              LET C == FencesAfter(Min(O))
              IN  C # {} => workflow = SubSeq(lines, Min(O) + 1, Min(C) - 1)

\* C7: with the workflow heading followed by an opening fence line and no
\* later fence line, the extracted workflow is every line after the opening
\* fence up to the last line, unmodified, and the scan ended at the end of
\* the line sequence.
C7_UnterminatedFence ==
    (WorkflowDone /\ WorkflowHeadingIdxs # {}) =>
        LET O == FencesAfter(Min(WorkflowHeadingIdxs))
        IN  (O # {} /\ FencesAfter(Min(O)) = {}) =>
              /\ workflow = SubSeq(lines, Min(O) + 1, Len(lines))
              /\ pc = "workflow_slide" => idx = Len(lines) + 1

AfterWorkflowSlide == pc \in {"commands", "examples", "technical", "closing", "done"}

RuleTable ==
    << [prefix |-> <<" ", " ", " ", " ", "-", " ">>, level |-> 2, strip |-> 6],
       [prefix |-> <<" ", " ", "-", " ">>, level |-> 1, strip |-> 4],
       [prefix |-> <<"-", " ">>, level |-> 0, strip |-> 2] >>

RECURSIVE FirstMatch(_, _)
\* first rule of the table whose prefix the line starts with; else (0, line)
FirstMatch(L, table) ==
    IF table = <<>> THEN [level |-> 0, text |-> L]
    ELSE IF StartsWith(L, Head(table).prefix)
         THEN [level |-> Head(table).level, text |-> DropFirst(L, Head(table).strip)]
         ELSE FirstMatch(L, Tail(table))

\* the orders in which the three rules can be tested
RuleOrders == { p \in [1..3 -> 1..3] : \A i, j \in 1..3 : p[i] = p[j] => i = j }

FiveSpaces == <<" ", " ", " ", " ", " ">>

\* C4: the paragraph of every content item is the first matching rule of the
\* ordered table (4 spaces + dash: level 2; 2 spaces + dash: level 1; dash:
\* level 0; else level 0 and the item unchanged); the level is in 0..2; an
\* item indented deeper than 4 spaces and a blank item get level 0 and their
\* own text; testing the rules in any other order gives the same paragraph.
C4_FirstMatchingRule ==
    pc = "content_done" =>
        /\ para = FirstMatch(item, RuleTable)
        /\ para.level \in 0..2
        /\ item = <<>> => para = [level |-> 0, text |-> <<>>]
        /\ StartsWith(item, FiveSpaces) => para = [level |-> 0, text |-> item]
        /\ \A p \in RuleOrders :
              para = FirstMatch(item, [k \in 1..3 |-> RuleTable[p[k]]])

\* C4 witness: a dash indented by five spaces has been classified
C4_Witness ==
    /\ pc = "content_done"
    /\ item = FiveSpaces \o <<"-", " ">>
    /\ para = [level |-> 0, text |-> item]

\* number of slides parse_readme adds whatever the document holds: the two
\* title slides and the slides of the three create_* methods
FixedSlides == Len(create_technical_slides(create_example_slides(create_command_slides(<<>>)))) + 2

\* C6: the features slide is in the deck iff the extracted features are
\* non-empty and the workflow slide iff the extracted workflow is non-empty;
\* a readable document never ends in an error, every step before the end has
\* a successor, and the deck ends with the fixed slides and the closing title.
C6_MissingSectionSkipped ==
    /\ fileExists => pc # "error"
    /\ (fileExists /\ pc # "done") => ENABLED Next
    /\ pc = "done" =>
          /\ (FeaturesSlidePos # 0) <=> (features # <<>>)
          /\ (WorkflowSlidePos # 0) <=> (workflow # <<>>)
          /\ \A k \in 1..Len(slides) :
                slides[k].kind \in {"content", "diagram"} => slides[k].body # <<>>
          /\ Len(slides) = FixedSlides
                             + (IF features # <<>> THEN 1 ELSE 0)
                             + (IF workflow # <<>> THEN 1 ELSE 0)
          /\ slides[Len(slides)].kind = "title"
          /\ slides[Len(slides)].title = ThanksTitle

\* C6 witness: both headings present, no bullet and no fence: neither slide
C6_Witness ==
    /\ pc = "done"
    /\ FeatureHeadingIdxs # {}
    /\ WorkflowHeadingIdxs # {}
    /\ features = <<>>
    /\ workflow = <<>>
    /\ Len(slides) = FixedSlides
    /\ slides[Len(slides)].title = ThanksTitle

\* C8: when the source document cannot be opened parse_readme ends in the
\* error and the deck is unchanged: no slide has been appended.
C8_MissingFileNoOutput ==
    ~fileExists => (pc \in {"start", "error"} /\ slides = <<>>)

\* C8 witness: the open has failed
C8_Witness ==
    /\ ~fileExists
    /\ pc = "error"
    /\ slides = <<>>

\* C10: every features item is the trimmed form of its source line, starts
\* with '- ' and is classified at level 0 with the two marker characters
\* removed; the features slide holds exactly these level 0 paragraphs.
C10_FeaturesAreLevelZero ==
    /\ \A k \in 1..Len(features) :
          LET src == lines[feat_src[k]]
          IN  /\ features[k] = Strip(src)
              /\ StartsWith(features[k], BulletMarker)
              /\ Classify(features[k]) = [level |-> 0, text |-> DropFirst(Strip(src), 2)]
    /\ FeaturesSlidePos # 0 =>
          slides[FeaturesSlidePos].body =
              [k \in 1..Len(features) |->
                  [level |-> 0, text |-> DropFirst(Strip(lines[feat_src[k]]), 2)]]

\* C10 witness: a nested bullet of the features section is on the slide at
\* level 0
C10_Witness ==
    /\ pc = "done"
    /\ FeaturesSlidePos # 0
    /\ \E k \in 1..Len(features) :
          /\ StartsWith(lines[feat_src[k]], Level1Prefix)
          /\ slides[FeaturesSlidePos].body[k].level = 0

====
